---- MODULE Spec2Model ----
(***************************************************************************)
(* Model of LQBZ/Anli/image-compress.js: compressImage, its image load     *)
(* handlers, applyImageCompression, compressAllImages and                  *)
(* compressImageForCarousel, acting on one page with one image element.    *)
(* Strings are sequences of one-character strings, so that startsWith,     *)
(* includes and toLowerCase are computed as JavaScript computes them.      *)
(***************************************************************************)
EXTENDS Integers, Sequences, FiniteSets, TLC

VARIABLES net, pic, pageSrc, el, call, listeners, srcWrites

vars == <<net, pic, pageSrc, el, call, listeners, srcWrites>>

\* ------------------------------------------------------------------ bounds

\* Number of calls of the four public functions in one run.
MaxCalls == 2

\* Number of direct compressImage calls in one run of SpecCompress.
MaxCompress == 1

\* The retry counter of a compressImage call stops counting here.
MaxCount == 2

\* ------------------------------------------------------------- constants

DefaultMax == 1920

\* quality is kept in tenths: 0.8 is 8.
DefaultQuality == 8

SmallPixels == 500000

\* ---------------------------------------------------------------- strings

StartsWith(s, p) ==
    /\ Len(s) >= Len(p)
    /\ SubSeq(s, 1, Len(p)) = p

Includes(s, p) ==
    \E i \in 1..(Len(s) - Len(p) + 1) : SubSeq(s, i, i + Len(p) - 1) = p

LowerChar(c) ==
    CASE c = "P" -> "p"
      [] c = "N" -> "n"
      [] c = "G" -> "g"
      [] c = "J" -> "j"
      [] OTHER -> c

ToLowerCase(s) == [i \in 1..Len(s) |-> LowerChar(s[i])]

DataPrefix == <<"d", "a", "t", "a", ":">>

DataImagePrefix == <<"d", "a", "t", "a", ":", "i", "m", "a", "g", "e">>

SchemeSep == <<":", "/", "/">>

DotPng == <<".", "p", "n", "g">>

\* window.location.protocol + '//' + window.location.host  =  "http://me"
LocationOrigin == <<"h", "t", "t", "p", ":", "/", "/", "m", "e">>

\* "http://cdn"
OtherOrigin == <<"h", "t", "t", "p", ":", "/", "/", "c", "d", "n">>

PathJpg == <<"/", "a", ".", "j", "p", "g">>

PathPng == <<"/", "a", ".", "p", "n", "g">>

PathPngUpper == <<"/", "a", ".", "P", "N", "G">>

PathPngJpg == <<"/", "a", ".", "p", "n", "g", ".", "j", "p", "g">>

\* "data:image/png,z" and "data:image/jpeg,z": what canvas.toDataURL returns.
DataUrlPng == DataImagePrefix \o <<"/", "p", "n", "g", ",", "z">>

DataUrlJpeg == DataImagePrefix \o <<"/", "j", "p", "e", "g", ",", "z">>

\* The sources an image element of the page reports: element.src is an
\* absolute URL or an embedded data URL.
PageSources ==
    { LocationOrigin \o PathPng,
      LocationOrigin \o PathPngJpg,
      OtherOrigin \o PathJpg,
      OtherOrigin \o PathPngUpper,
      DataUrlPng }

\* The sources compressImage is called with directly.
Sources ==
    PageSources \cup
    { PathJpg,
      <<".">> \o PathPng,
      <<"a", ".", "p", "n", "g">> }

\* Natural sizes of the picture behind the sources: <<width, height>>.
Pictures ==
    { <<400, 1000>>, <<500, 1000>>, <<1000, 800>>, <<3000, 2000>>, <<800, 3000>> }

Options ==
    { [maxWidth |-> DefaultMax, maxHeight |-> DefaultMax, quality |-> DefaultQuality],
      [maxWidth |-> DefaultMax, maxHeight |-> 600, quality |-> DefaultQuality],
      [maxWidth |-> 600, maxHeight |-> DefaultMax, quality |-> 5] }

\* The runs that follow the page's element: a picture that is handed back
\* and one that is re-encoded, and calls that leave the sizes and the
\* quality to their defaults.
PagePictures == { <<400, 1000>>, <<3000, 2000>> }

PageOptions ==
    { [maxWidth |-> DefaultMax, maxHeight |-> DefaultMax, quality |-> DefaultQuality] }

\* How the server of the picture answers: "ok" serves every request,
\* "nocors" serves it without CORS headers (a request in anonymous
\* cross-origin mode fails, a plain one succeeds), "down" serves nothing.
NetModes == {"ok", "nocors", "down"}

\* ------------------------------------------------------------ compressImage

\* A promise: pending, or settled with a value.
Pending == [state |-> "pending", value |-> <<>>]

Fulfilled(v) == [state |-> "fulfilled", value |-> v]

Rejected == [state |-> "rejected", value |-> <<>>]

\* Whether compressImage puts the image in anonymous cross-origin mode.
UseCrossOrigin(src) ==
    /\ ~StartsWith(src, DataPrefix)
    /\ ~StartsWith(src, <<"/">>)
    /\ ~StartsWith(src, <<".", "/">>)
    /\ Includes(src, SchemeSep)
    /\ ~StartsWith(src, LocationOrigin)

\* The browser's answer to a load that compressImage starts: an embedded
\* source needs no request, a request in anonymous mode needs CORS headers.
LoadSucceeds(src, crossOrigin, n) ==
    IF StartsWith(src, DataPrefix) THEN TRUE
    ELSE IF crossOrigin THEN n = "ok"
    ELSE n # "down"

ShouldResize(w, h, opt) == w > opt.maxWidth \/ h > opt.maxHeight

IsSmallInclusive(w, h, opt) == ~ShouldResize(w, h, opt) /\ w * h <= SmallPixels

\* The early return of onload: the picture is handed back as it is.
IsSmall(w, h, opt) == ~ShouldResize(w, h, opt) /\ w * h < SmallPixels

\* The size of the canvas: the scaled width and height, which the canvas
\* truncates to integers.
ScaledSize(w, h, opt) ==
    IF ~ShouldResize(w, h, opt) THEN <<w, h>>
    ELSE IF w > h
         THEN IF w > opt.maxWidth
              THEN <<opt.maxWidth, (h * opt.maxWidth) \div w>>
              ELSE <<w, h>>
         ELSE IF h > opt.maxHeight
              THEN <<(w * opt.maxHeight) \div h, opt.maxHeight>>
              ELSE <<w, h>>

OutputFormat(src, resized) ==
    IF Includes(ToLowerCase(src), DotPng) /\ ~resized
    THEN "image/png"
    ELSE "image/jpeg"

\* quality handed to toDataURL: undefined (0) for PNG.
OutputQuality(src, resized, quality) ==
    IF OutputFormat(src, resized) = "image/png" THEN 0 ELSE quality

ToDataURL(format) == IF format = "image/png" THEN DataUrlPng ELSE DataUrlJpeg

OnloadCatchRejects(src) == Rejected

\* The catch block of onload.
OnloadCatch(src) == Fulfilled(src)

\* onerror without a retry left, and retryImg.onerror.
OnerrorGiveUp(src) == Fulfilled(src)

\* .then(resolve).catch(() => resolve(imageSrc)) around the recursive call:
\* the outer promise takes the inner value, or the source if it rejected.
Chain(inner, src, nested) ==
    IF nested /\ inner.state = "rejected" THEN Fulfilled(src) ELSE inner

NoCall ==
    [kind |-> "none", st |-> "free", src |-> <<>>,
     opt |-> [maxWidth |-> DefaultMax, maxHeight |-> DefaultMax,
              quality |-> DefaultQuality],
     showLoading |-> FALSE, deferred |-> FALSE, fired |-> 0,
     crossOrigin |-> FALSE, nested |-> FALSE, retries |-> 0,
     canvas |-> <<>>, format |-> "none", quality |-> 0,
     outcome |-> "none", result |-> Pending]

\* new Promise(...) of compressImage: a new Image in the chosen mode, its
\* handlers set and its load started.
NewCompress(rec, src, opt) ==
    [rec EXCEPT !.st = "img", !.src = src, !.opt = opt,
                !.crossOrigin = UseCrossOrigin(src)]

\* img.onload: what the call record becomes; fail says whether the canvas
\* calls throw.
Onload(rec, w, h, fail) ==
    IF IsSmall(w, h, rec.opt)
    THEN [rec EXCEPT !.st = "settled", !.outcome = "small",
                     !.result = Chain(Fulfilled(rec.src), rec.src, rec.nested)]
    ELSE IF fail
    THEN [rec EXCEPT !.st = "settled", !.outcome = "caught",
                     !.canvas = ScaledSize(w, h, rec.opt),
                     !.result = Chain(OnloadCatch(rec.src), rec.src, rec.nested)]
    ELSE [rec EXCEPT !.st = "settled", !.outcome = "encoded",
                     !.canvas = ScaledSize(w, h, rec.opt),
                     !.format = OutputFormat(rec.src, ShouldResize(w, h, rec.opt)),
                     !.quality = OutputQuality(rec.src, ShouldResize(w, h, rec.opt),
                                               rec.opt.quality),
                     !.result = Chain(Fulfilled(ToDataURL(
                                    OutputFormat(rec.src, ShouldResize(w, h, rec.opt)))),
                                    rec.src, rec.nested)]

Min(a, b) == IF a < b THEN a ELSE b

\* img.onerror.
Onerror(rec) ==
    IF rec.crossOrigin
    THEN [rec EXCEPT !.st = "retry", !.retries = Min(@ + 1, MaxCount)]
    ELSE [rec EXCEPT !.st = "settled", !.outcome = "loadError",
                     !.result = Chain(OnerrorGiveUp(rec.src), rec.src, rec.nested)]

\* retryImg.onload: compressImage is called again with the same arguments.
RetryOnloadRec(rec) ==
    [NewCompress(rec, rec.src, rec.opt) EXCEPT !.nested = TRUE]

\* retryImg.onerror.
RetryOnerrorRec(rec) ==
    [rec EXCEPT !.st = "settled", !.outcome = "retryError",
                !.result = Chain(OnerrorGiveUp(rec.src), rec.src, rec.nested)]

\* ---------------------------------------------------- applyImageCompression

SkipsOnlyCompressed(e) == e.compressed = "true"

\* The two early returns of applyImageCompression.
Skips(e) == e.compressed = "true" \/ StartsWith(e.src, DataImagePrefix)

\* The statements before the await: the element is dimmed.
Dim(e, showLoading) ==
    IF showLoading THEN [e EXCEPT !.opacity = "0.5"] ELSE e

ContinueStoresCurrent(e, rec) ==
    IF rec.result.state = "fulfilled"
    THEN [e EXCEPT !.src = rec.result.value,
                   !.complete = FALSE,
                   !.compressed = "true",
                   !.originalSrc = e.src,
                   !.opacity = IF rec.showLoading THEN "1" ELSE @,
                   !.transition = IF rec.showLoading THEN "opacity 0.5s ease" ELSE @]
    ELSE [e EXCEPT !.opacity = "1"]

\* The statements after the await, and the catch block.
Continue(e, rec) ==
    IF rec.result.state = "fulfilled"
    THEN [e EXCEPT !.src = rec.result.value,
                   !.complete = FALSE,
                   !.compressed = "true",
                   !.originalSrc = rec.src,
                   !.opacity = IF rec.showLoading THEN "1" ELSE @,
                   !.transition = IF rec.showLoading THEN "opacity 0.5s ease" ELSE @]
    ELSE [e EXCEPT !.opacity = "1"]

\* One invocation of applyImageCompression up to its await, by call c:
\* the element and the call records afterwards.
Invoke(st, c, opt, showLoading) ==
    IF Skips(st.el)
    THEN [el |-> st.el,
          call |-> [st.call EXCEPT ![c].fired = @ + 1]]
    ELSE [el |-> Dim(st.el, showLoading),
          call |-> [st.call EXCEPT
                      ![c] = [NewCompress(@, st.el.src, opt) EXCEPT
                                 !.fired = @ + 1,
                                 !.showLoading = showLoading]]]

AfterDispatchKept(ls) == ls

\* { once: true }: the listeners that ran are removed.
AfterDispatch(ls) == <<>>

\* The load listeners of the element run in the order they were added.
RECURSIVE FireListeners(_, _)
FireListeners(st, ls) ==
    IF ls = <<>> THEN st
    ELSE FireListeners(
            Invoke(st, Head(ls), st.call[Head(ls)].opt, st.call[Head(ls)].showLoading),
            Tail(ls))

\* ------------------------------------------------------------------ state

Calls == 1..MaxCalls

\* The calls made so far have the ids 1..Made.
Made == Cardinality({c \in Calls : call[c].kind # "none"})

\* The element's own loads are plain requests.
ElementLoads == LoadSucceeds(el.src, FALSE, net)

Init ==
    /\ net \in NetModes
    /\ pic \in PagePictures
    /\ pageSrc \in PageSources
    /\ el \in [src : {pageSrc}, compressed : {"unset"}, originalSrc : {<<>>},
               opacity : {""}, transition : {""}, complete : BOOLEAN,
               logo : BOOLEAN]
    /\ call = [c \in Calls |-> NoCall]
    /\ listeners = <<>>
    /\ srcWrites = 0

\* A run of direct compressImage calls: the element plays no part.
InitCompress ==
    /\ net \in NetModes
    /\ pic \in Pictures
    /\ pageSrc = DataUrlPng
    /\ el = [src |-> pageSrc, compressed |-> "unset", originalSrc |-> <<>>,
             opacity |-> "", transition |-> "", complete |-> TRUE,
             logo |-> FALSE]
    /\ call = [c \in Calls |-> NoCall]
    /\ listeners = <<>>
    /\ srcWrites = 0

\* The promise of call c settles: an awaiting applyImageCompression goes on.
Settle(c, rec) ==
    /\ call' = [call EXCEPT ![c] = rec]
    /\ el' = IF rec.kind = "compress" THEN el ELSE Continue(el, rec)
    /\ srcWrites' = IF rec.kind # "compress" /\ rec.result.state = "fulfilled"
                    THEN srcWrites + 1 ELSE srcWrites

\* ---------------------------------------------------------------- actions

\* compressImage(src, maxWidth, maxHeight, quality), called by the page.
Compress(src, opt) ==
    /\ Made < MaxCompress
    /\ Made < MaxCalls
    /\ call' = [call EXCEPT ![Made + 1] =
                   [NewCompress(@, src, opt) EXCEPT !.kind = "compress"]]
    /\ UNCHANGED <<net, pic, pageSrc, el, listeners, srcWrites>>

\* applyImageCompression(el, options), called by the page.
ApplyTo(opt, showLoading) ==
    /\ Made < MaxCalls
    /\ LET st == Invoke([el |-> el,
                         call |-> [call EXCEPT ![Made + 1].kind = "applyTo"]],
                        Made + 1, opt, showLoading)
       IN  /\ el' = st.el
           /\ call' = st.call
    /\ UNCHANGED <<net, pic, pageSrc, listeners, srcWrites>>

\* compressImageForCarousel(el, options).
ApplyToDynamic(opt) ==
    /\ Made < MaxCalls
    /\ LET st == Invoke([el |-> el,
                         call |-> [call EXCEPT ![Made + 1].kind = "carousel"]],
                        Made + 1, opt, FALSE)
       IN  /\ el' = st.el
           /\ call' = st.call
    /\ UNCHANGED <<net, pic, pageSrc, listeners, srcWrites>>

\* compressAllImages(options), the element matching the selector.
ApplyToAll(opt, showLoading) ==
    /\ Made < MaxCalls
    /\ LET c == Made + 1
           started == [call EXCEPT ![c].kind = "applyToAll"]
       IN  IF el.logo
           THEN /\ call' = started
                /\ UNCHANGED <<el, listeners>>
           ELSE IF el.complete
           THEN LET st == Invoke([el |-> el, call |-> started], c, opt, showLoading)
                IN  /\ el' = st.el
                    /\ call' = st.call
                    /\ UNCHANGED listeners
           ELSE /\ call' = [started EXCEPT ![c].deferred = TRUE,
                                           ![c].opt = opt,
                                           ![c].showLoading = showLoading]
                /\ listeners' = Append(listeners, c)
                /\ UNCHANGED el
    /\ UNCHANGED <<net, pic, pageSrc, srcWrites>>

\* The load event of the element: its once-listeners run and are removed.
ElementLoad ==
    /\ ~el.complete
    /\ ElementLoads
    /\ LET st == FireListeners([el |-> [el EXCEPT !.complete = TRUE], call |-> call],
                               listeners)
       IN  /\ el' = st.el
           /\ call' = st.call
    /\ listeners' = AfterDispatch(listeners)
    /\ UNCHANGED <<net, pic, pageSrc, srcWrites>>

\* The error event of the element: it is complete, and broken.
ElementError ==
    /\ ~el.complete
    /\ ~ElementLoads
    /\ el' = [el EXCEPT !.complete = TRUE]
    /\ UNCHANGED <<net, pic, pageSrc, call, listeners, srcWrites>>

ImgOnload(c, fail) ==
    /\ call[c].st = "img"
    /\ LoadSucceeds(call[c].src, call[c].crossOrigin, net)
    /\ Settle(c, Onload(call[c], pic[1], pic[2], fail))
    /\ UNCHANGED <<net, pic, pageSrc, listeners>>

ImgOnerror(c) ==
    /\ call[c].st = "img"
    /\ ~LoadSucceeds(call[c].src, call[c].crossOrigin, net)
    /\ IF Onerror(call[c]).st = "settled"
       THEN Settle(c, Onerror(call[c]))
       ELSE /\ call' = [call EXCEPT ![c] = Onerror(call[c])]
            /\ UNCHANGED <<el, srcWrites>>
    /\ UNCHANGED <<net, pic, pageSrc, listeners>>

RetryOnload(c) ==
    /\ call[c].st = "retry"
    /\ LoadSucceeds(call[c].src, FALSE, net)
    /\ call' = [call EXCEPT ![c] = RetryOnloadRec(call[c])]
    /\ UNCHANGED <<net, pic, pageSrc, el, listeners, srcWrites>>

RetryOnerror(c) ==
    /\ call[c].st = "retry"
    /\ ~LoadSucceeds(call[c].src, FALSE, net)
    /\ Settle(c, RetryOnerrorRec(call[c]))
    /\ UNCHANGED <<net, pic, pageSrc, listeners>>

Handlers ==
    \/ \E c \in Calls, fail \in BOOLEAN : ImgOnload(c, fail)
    \/ \E c \in Calls : ImgOnerror(c)
    \/ \E c \in Calls : RetryOnload(c)
    \/ \E c \in Calls : RetryOnerror(c)

Next ==
    \/ \E opt \in PageOptions, showLoading \in BOOLEAN : ApplyTo(opt, showLoading)
    \/ \E opt \in PageOptions : ApplyToDynamic(opt)
    \/ \E opt \in PageOptions, showLoading \in BOOLEAN : ApplyToAll(opt, showLoading)
    \/ ElementLoad
    \/ ElementError
    \/ Handlers

NextCompress ==
    \/ \E src \in Sources, opt \in Options : Compress(src, opt)
    \/ Handlers

Spec == Init /\ [][Next]_vars

SpecCompress == InitCompress /\ [][NextCompress]_vars

\* Every event the browser has queued is delivered, and so is every handler
\* that is ready to run.
FairSpec == Spec /\ WF_vars(Next)

\* ----------------------------------------------------------------- claims

EndsWith(s, p) ==
    /\ Len(s) >= Len(p)
    /\ SubSeq(s, Len(s) - Len(p) + 1, Len(s)) = p

\* The calls whose picture loaded: img.onload ran to its end.
Loaded(c) == call[c].outcome \in {"small", "caught", "encoded"}

\* The calls that ended on a failure path.
Failed(c) == call[c].outcome \in {"caught", "loadError", "retryError"}

InBounds(c) == pic[1] <= call[c].opt.maxWidth /\ pic[2] <= call[c].opt.maxHeight

\* C1: the promise of compressImage is never rejected: it is pending until a
\* handler settles it, a settled promise is fulfilled, and on every failure
\* path (load error, failed retry, exception inside onload) the value is
\* the exact source the call was given.
C1_NeverRejected ==
    \A c \in Calls :
        /\ call[c].result.state # "rejected"
        /\ call[c].st = "settled" <=> call[c].result.state = "fulfilled"
        /\ Failed(c) => call[c].result.value = call[c].src

\* An exception inside onload has been caught and the promise is settled.
C1_Witness ==
    \E c \in Calls :
        /\ call[c].kind = "compress"
        /\ call[c].st = "settled"
        /\ call[c].outcome = "caught"

\* C2: a compressImage call retries a failed anonymous-mode load once, without
\* the mode, and then gives up: it never starts a second retry load.
C2_RetriesOnce == \A c \in Calls : call[c].retries <= 1

\* C3: applyImageCompression is idempotent, also for overlapping calls:
\* compressImage is invoked at most once for the element and the element's
\* source is written at most once.
C3_CompressedOnce ==
    /\ Cardinality({c \in Calls : call[c].kind # "compress" /\ call[c].st # "free"}) <= 1
    /\ srcWrites <= 1

\* C4: a loaded picture within both bounds and under 500000 pixels is handed
\* back as the exact source, with no canvas and no encoding; one within
\* bounds with 500000 pixels or more gets a canvas of its own size and,
\* unless the canvas calls throw, is encoded to a data URL.
C4_SmallUnchanged ==
    \A c \in Calls :
        Loaded(c) /\ InBounds(c) =>
            IF pic[1] * pic[2] < 500000
            THEN /\ call[c].result = Fulfilled(call[c].src)
                 /\ call[c].canvas = <<>>
                 /\ call[c].format = "none"
            ELSE /\ call[c].outcome # "small"
                 /\ call[c].canvas = pic
                 /\ call[c].outcome = "encoded" =>
                        /\ call[c].format # "none"
                        /\ call[c].result = Fulfilled(ToDataURL(call[c].format))

\* A picture of exactly 500000 pixels within bounds has been re-encoded.
C4_Witness ==
    \E c \in Calls :
        /\ call[c].kind = "compress"
        /\ pic = <<500, 1000>>
        /\ InBounds(c)
        /\ call[c].outcome = "encoded"

\* C5: the canvas of a picture that exceeds a bound fits both bounds.
C5_CanvasFits ==
    \A c \in Calls :
        /\ Loaded(c)
        /\ call[c].canvas # <<>>
        /\ ~InBounds(c)
        => /\ call[c].canvas[1] <= call[c].opt.maxWidth
           /\ call[c].canvas[2] <= call[c].opt.maxHeight

\* C6: an encoding is PNG exactly when the source's path ends in .png and the
\* picture was not resized; otherwise it is JPEG at the given quality.
C6_PngOnlyForPngSources ==
    \A c \in Calls :
        call[c].outcome = "encoded" =>
            IF EndsWith(ToLowerCase(call[c].src), DotPng) /\ InBounds(c)
            THEN call[c].format = "image/png"
            ELSE /\ call[c].format = "image/jpeg"
                 /\ call[c].quality = call[c].opt.quality

\* C7: an applyImageCompression invocation on an element that is marked
\* compressed, or whose source is an embedded data:image source, leaves the
\* element's source, flag, stored original source and opacity as they are,
\* and starts no compressImage call.
C7_SkipLeavesElement ==
    [][ /\ el.compressed = "true" \/ StartsWith(el.src, DataImagePrefix)
        /\ \E c \in Calls : call'[c].fired # call[c].fired
        => /\ el'.src = el.src
           /\ el'.compressed = el.compressed
           /\ el'.originalSrc = el.originalSrc
           /\ el'.opacity = el.opacity
           /\ \A c \in Calls : call'[c].st = call[c].st ]_vars

\* A call on the element returned early because the element was marked.
C7_Witness ==
    /\ ~StartsWith(pageSrc, DataImagePrefix)
    /\ el.compressed = "true"
    /\ \E c \in Calls :
        /\ call[c].kind \in {"applyTo", "carousel"}
        /\ call[c].fired = 1
        /\ call[c].st = "free"

\* C8: a dimmed element is eventually shown at opacity 1 again.
C8_OpacityRestored == (el.opacity = "0.5") ~> (el.opacity = "1")

\* C9: a compressAllImages call that found the element not yet loaded
\* invokes applyImageCompression on it only in a load event of the element,
\* and once: no later load event invokes it again for that call.
C9_DeferredOnce ==
    [][ \A c \in Calls :
            call'[c].deferred /\ call'[c].fired # call[c].fired
            => /\ ~el.complete
               /\ el'.complete
               /\ call[c].fired = 0
               /\ call'[c].fired = 1 ]_vars

\* A deferred call ran on the load event, its compression replaced the
\* source, and the load event of the new source has been delivered.
C9_Witness ==
    \E c \in Calls :
        /\ call[c].deferred
        /\ call[c].fired = 1
        /\ call[c].st = "settled"
        /\ StartsWith(el.src, DataImagePrefix)
        /\ el.complete

\* C10: a marked element's stored original source is set, is no embedded
\* data:image source, and is the source the page gave the element.
C10_OriginalKept ==
    el.compressed = "true" =>
        /\ el.originalSrc # <<>>
        /\ ~StartsWith(el.originalSrc, DataImagePrefix)
        /\ el.originalSrc = pageSrc

\* Two overlapping calls have both written the element's source.
C10_Witness ==
    /\ el.compressed = "true"
    /\ srcWrites = 2
    /\ StartsWith(el.src, DataImagePrefix)

====
